---- MODULE Spec2Model ----
(***************************************************************************)
(* pathfinder-capture: the local walkthrough store (useLocalStorage /      *)
(* useWalkthroughStorage), the Index orchestration with its simulated      *)
(* uploads, the capture session hook (useCamera) with the CameraInterface  *)
(* auto-capture ticker, the WalkthroughViewer playback loop, and the       *)
(* network status hook (useNetwork).                                       *)
(*                                                                         *)
(* React specifics that the model keeps:                                   *)
(*  - a hook's state lives per component instance and is created at mount; *)
(*  - a handler or timer callback reads the state values that its render   *)
(*    closed over, not the values committed since ("closure snapshot");    *)
(*  - Date.now() is the variable now, which only moves forward.            *)
(* An absent value (null / undefined / '') is the empty sequence, a        *)
(* present value v is <<v>>.                                               *)
(***************************************************************************)
EXTENDS Integers, Sequences, FiniteSets, TLC

VARIABLES
    now,                \* Date.now()
    \* ---- Index (part_001:15-86) and the store instances
    currentView,        \* Index.currentView
    pendingSessionId,   \* Index.pendingSessionId
    selectedSessionId,  \* Index.selectedSessionId
    isOnline,           \* useNetwork().isOnline
    storedValue,        \* useLocalStorage state of Index's store instance
    galleryValue,       \* useLocalStorage state of WalkthroughGallery's instance
    persisted,          \* localStorage['walkthrough_sessions']
    uploadTimers,       \* pending setTimeout callbacks of handleUploadSession
    expected,           \* ghost: Index's store calls applied in order
    batch,              \* ghost: ids handed to the last Upload All
    batchClean,         \* ghost: no other store operation since that Upload All
    \* ---- useCamera (hooks/useCamera.ts) and CameraInterface (part_001:265-372)
    currentSession,     \* useCamera state currentSession
    isCapturing,        \* useCamera state isCapturing
    inflight,           \* captureFrame calls awaiting the camera: each holds the
                        \* currentSession its closure captured
    returned,           \* value returned by the last stopCaptureSession
    isReady,            \* CameraInterface.isReady
    autoCapturing,      \* CameraInterface.autoCapturing
    captureInterval,    \* captureIntervalRef holds a running interval
    tickSession,        \* currentSession captured by the interval callback
    reported,           \* ghost: the session whose id went to onSessionComplete
    completed,          \* ghost: frames of this session's resolved captures, in order
    starts,             \* ghost: number of startCaptureSession calls
    lastResult,         \* ghost: what the last settled captureFrame call returned
    failedBefore,       \* ghost: a captureFrame call of this session returned null
    ticks,              \* ghost: interval callbacks run since Start Capture
    stopped,            \* ghost: the capture session was stopped or torn down
    \* ---- WalkthroughViewer (part_002:14-160)
    viewerSession,      \* WalkthroughViewer.session
    currentFrameIndex,  \* WalkthroughViewer.currentFrameIndex
    isPlaying,          \* WalkthroughViewer.isPlaying
    playbackSpeed,      \* WalkthroughViewer.playbackSpeed
    playInterval,       \* the playback effect holds a running interval
    handlerFrameIndex,  \* currentFrameIndex as the mounted handlers captured it
    playTimers,         \* number of setInterval handles of the playback effect
                        \* that no clearInterval has cleared
    playStart,          \* ghost: frame index at which the current playback began
    playTicks,          \* ghost: playback ticks since then with no other input
    \* ---- useLocalStorage.setValue's try/catch (hooks/useLocalStorage.ts:15-23)
    writeFailed,        \* ghost: the last setValue caught an error of
                        \* JSON.stringify / localStorage.setItem
    deletedIds,         \* ghost: ids deleted through the gallery and not added since
    \* ---- useNetwork (hooks/useNetwork.ts:4-56) in a component that mounts and
    \* unmounts
    netMounted,         \* the component using useNetwork is mounted
    connectionType,     \* useNetwork state connectionType
    statusPending,      \* Network.getStatus() calls not settled yet, each
                        \* named by the mount that made it
    listenerPending,    \* Network.addListener() calls not settled yet, likewise
    networkListener,    \* the mounted effect's variable networkListener holds
                        \* a handle
    subscriptions,      \* 'networkStatusChange' listeners the plugin holds
    browserListeners,   \* the window online / offline listeners are registered
    mounts              \* ghost: number of mounts so far

storeVars == <<currentView, pendingSessionId, selectedSessionId, isOnline,
               storedValue, galleryValue, persisted, uploadTimers,
               expected, batch, batchClean>>

hookVars == <<currentSession, isCapturing, inflight, returned, completed, starts,
              lastResult, failedBefore>>

cameraVars == <<isReady, autoCapturing, captureInterval, tickSession, reported,
                ticks, stopped>>

viewerVars == <<viewerSession, currentFrameIndex, isPlaying, playbackSpeed,
                playInterval, handlerFrameIndex, playTimers, playStart, playTicks>>

auditVars == <<writeFailed, deletedIds>>

netVars == <<netMounted, connectionType, statusPending, listenerPending,
             networkListener, subscriptions, browserListeners, mounts>>

sideVars == <<auditVars, netVars>>

vars == <<now, storeVars, hookVars, cameraVars, viewerVars, sideVars>>

----------------------------------------------------------------------------
(* Bounds of the model *)

MaxTime == 1
NumIds == 2
MaxSessions == 2
MaxUploads == 2
MaxInflight == 2
MaxRaceFrames == 2
MaxSeqFrames == 11
MaxStarts == 2
MaxTicks == 5

\* totalSteps of a capture session
TotalSteps == 10

SessionIds == 1..NumIds

----------------------------------------------------------------------------
(* Values *)

None == <<>>
Some(v) == <<v>>

\* DescriptionInput's title field holds a string; a string is a sequence of
\* characters here so that trim() can be computed.
TitleInputs == { <<>>, <<" ">>, <<"a">>, <<" ", "a", " ">> }

IsSpace(c) == c = " "

RECURSIVE TrimLeft(_)
TrimLeft(s) == IF s # <<>> /\ IsSpace(Head(s)) THEN TrimLeft(Tail(s)) ELSE s

RECURSIVE TrimRight(_)
TrimRight(s) ==
    IF s # <<>> /\ IsSpace(s[Len(s)]) THEN TrimRight(SubSeq(s, 1, Len(s) - 1)) ELSE s

\* A title handed on as it was typed
NoTrim(s) == s

\* String.prototype.trim
Trim(s) == TrimRight(TrimLeft(s))

\* Nothing deleted, no failed write; no component with useNetwork mounted yet
SideInit ==
    /\ writeFailed = FALSE
    /\ deletedIds = {}
    /\ netMounted = FALSE
    /\ connectionType = "unknown"
    /\ statusPending = {}
    /\ listenerPending = {}
    /\ networkListener = FALSE
    /\ subscriptions = 0
    /\ browserListeners = FALSE
    /\ mounts = 0

----------------------------------------------------------------------------
(* useWalkthroughStorage: the list transforms handed to setSessions *)

\* prev => [session, ...prev]
AddSessionTo(prev, session) == <<session>> \o prev

\* { ...session, ...updates, updatedAt: Date.now() }
MergeSession(session, updates, t) ==
    [f \in DOMAIN session |->
        IF f = "updatedAt" THEN t
        ELSE IF f \in DOMAIN updates THEN updates[f] ELSE session[f]]

\* prev.map(session => session.id === id ? {...} : session)
UpdateSessionIn(prev, id, updates, t) ==
    [i \in 1..Len(prev) |->
        IF prev[i].id = id THEN MergeSession(prev[i], updates, t) ELSE prev[i]]

KeepOthers(id, session) == session.id # id

\* prev.filter(session => session.id !== id)
DeleteSessionFrom(prev, id) == SelectSeq(prev, LAMBDA s : KeepOthers(id, s))

\* sessions.find(session => session.id === id)
GetSession(sessions, id) ==
    LET hits == { i \in 1..Len(sessions) : sessions[i].id = id }
    IN  IF hits = {} THEN None
        ELSE Some(sessions[CHOOSE i \in hits : \A j \in hits : i <= j])

\* The mock record built by Index.handleDescriptionSave
MockSession(id, title, t) ==
    [id |-> id, title |-> title, frames |-> <<>>, createdAt |-> t,
     updatedAt |-> t, isUploaded |-> FALSE, totalFrames |-> 0]

\* sessions.filter(s => !s.isUploaded)
Unuploaded(sessions) == SelectSeq(sessions, LAMBDA s : ~s.isUploaded)

\* A write that reaches localStorage whether or not it threw
WritesAnyway(item, valueToStore, ok) == valueToStore

\* window.localStorage.setItem(key, JSON.stringify(valueToStore)) inside
\* setValue's try: the stored item after the call.  ok is FALSE when
\* JSON.stringify or setItem throws; the catch block logs and returns.
SetItem(item, valueToStore, ok) == IF ok THEN valueToStore ELSE item

\* useLocalStorage.setValue in Index's instance: setStoredValue(valueToStore)
\* comes before the write, so the state is set also when the write throws
IndexSetValueOn(valueToStore, ok) ==
    /\ storedValue' = valueToStore
    /\ persisted' = SetItem(persisted, valueToStore, ok)

\* useLocalStorage.setValue in Index's instance with a localStorage that takes
\* the write: valueToStore was computed by the caller from the storedValue its
\* closure captured; it becomes the state and is written to localStorage.
IndexSetValue(valueToStore) == IndexSetValueOn(valueToStore, TRUE)

\* useLocalStorage.setValue in the gallery's instance
GallerySetValue(valueToStore) ==
    /\ galleryValue' = valueToStore
    /\ persisted' = valueToStore

\* useState initialiser of useLocalStorage: JSON.parse of the stored item, or
\* the initial value [] when there is none
ReadStored(item) == item

----------------------------------------------------------------------------
(* Index: view routing and the description step *)

StoreInit ==
    /\ pendingSessionId = None
    /\ selectedSessionId = None
    /\ isOnline = TRUE
    /\ storedValue = <<>>
    /\ galleryValue = <<>>
    /\ persisted = <<>>
    /\ uploadTimers = <<>>
    /\ expected = <<>>
    /\ batch = {}
    /\ batchClean = FALSE

\* Date.now() moves forward
Advance ==
    /\ now < MaxTime
    /\ now' = now + 1
    /\ UNCHANGED <<storeVars, viewerVars>>

\* Network 'networkStatusChange' / online / offline events
NetworkChange ==
    /\ isOnline' = ~isOnline
    /\ UNCHANGED <<now, viewerVars, currentView, pendingSessionId, selectedSessionId,
                   storedValue, galleryValue, persisted, uploadTimers,
                   expected, batch, batchClean>>

\* Home: "Start Capture" button, setCurrentView('camera')
OpenCamera ==
    /\ currentView = "home"
    /\ currentView' = "camera"
    /\ UNCHANGED <<now, viewerVars, pendingSessionId, selectedSessionId, isOnline,
                   storedValue, galleryValue, persisted, uploadTimers,
                   expected, batch, batchClean>>

\* CameraInterface onClose
CloseCamera ==
    /\ currentView = "camera"
    /\ currentView' = "home"
    /\ UNCHANGED <<now, viewerVars, pendingSessionId, selectedSessionId, isOnline,
                   storedValue, galleryValue, persisted, uploadTimers,
                   expected, batch, batchClean>>

\* Index.handleCameraSessionComplete(sessionId)
HandleCameraSessionComplete(sessionId) ==
    /\ currentView = "camera"
    /\ pendingSessionId' = Some(sessionId)
    /\ currentView' = "description"
    /\ UNCHANGED <<now, viewerVars, selectedSessionId, isOnline, storedValue, galleryValue,
                   persisted, uploadTimers, expected, batch, batchClean>>

\* DescriptionInput.handleSave and Index.handleDescriptionSave when the
\* localStorage write of addSession succeeds (ok) or throws: setValue catches
\* the error, so the handler goes on to the gallery, which mounts and reads
\* what localStorage holds.
DescriptionSave(rawTitle, ok) ==
    /\ currentView = "description"
    /\ Trim(rawTitle) # <<>>
    /\ pendingSessionId # None
    /\ Len(expected) < MaxSessions
    /\ LET mockSession == MockSession(pendingSessionId[1], Trim(rawTitle), now)
           valueToStore == AddSessionTo(storedValue, mockSession)
       IN  /\ IndexSetValueOn(valueToStore, ok)
           /\ galleryValue' = ReadStored(SetItem(persisted, valueToStore, ok))
           /\ expected' = AddSessionTo(expected, mockSession)
    /\ pendingSessionId' = None
    /\ currentView' = "gallery"
    /\ batchClean' = FALSE
    /\ UNCHANGED <<now, viewerVars, selectedSessionId, isOnline, uploadTimers, batch>>

\* DescriptionInput.handleSave (title typed by the user) calling
\* Index.handleDescriptionSave(title.trim(), description.trim()), with a
\* localStorage that takes the write.
HandleDescriptionSave(rawTitle) == DescriptionSave(rawTitle, TRUE)

\* Index.handleDescriptionCancel
HandleDescriptionCancel ==
    /\ currentView = "description"
    /\ pendingSessionId' = None
    /\ currentView' = "home"
    /\ UNCHANGED <<now, viewerVars, selectedSessionId, isOnline, storedValue, galleryValue,
                   persisted, uploadTimers, expected, batch, batchClean>>

\* Home: "View Gallery" button; WalkthroughGallery mounts
OpenGallery ==
    /\ currentView = "home"
    /\ currentView' = "gallery"
    /\ galleryValue' = ReadStored(persisted)
    /\ UNCHANGED <<now, viewerVars, pendingSessionId, selectedSessionId, isOnline,
                   storedValue, persisted, uploadTimers, expected, batch,
                   batchClean>>

\* Gallery: "Back to Home"; WalkthroughGallery unmounts
CloseGallery ==
    /\ currentView = "gallery"
    /\ currentView' = "home"
    /\ galleryValue' = <<>>
    /\ UNCHANGED <<now, viewerVars, pendingSessionId, selectedSessionId, isOnline,
                   storedValue, persisted, uploadTimers, expected, batch,
                   batchClean>>

----------------------------------------------------------------------------
(* WalkthroughGallery (part_003:16-173) and the simulated upload *)

\* An effect run that arms its interval without the previous run's cleanup
NoCleanup(timers, wasArmed, armed) ==
    timers + (IF armed THEN 1 ELSE 0)

\* The playback effect runs again (part_002:135-149): the cleanup of the
\* previous run clears the interval that run had armed, then the new run arms
\* one when isPlaying and session are set.  The number of live intervals after.
EffectTimers(timers, wasArmed, armed) ==
    (timers - (IF wasArmed THEN 1 ELSE 0)) + (IF armed THEN 1 ELSE 0)

\* No viewer is mounted
ViewerInit ==
    /\ viewerSession = None
    /\ currentFrameIndex = 0
    /\ isPlaying = FALSE
    /\ playbackSpeed = 1000
    /\ playInterval = FALSE
    /\ handlerFrameIndex = 0
    /\ playTimers = 0
    /\ playStart = None
    /\ playTicks = 0

\* WalkthroughViewer's useState initial values; an unmounted viewer holds the
\* same values (its effect cleanup has cleared the playback interval)
ViewerMount ==
    /\ viewerSession' = None
    /\ currentFrameIndex' = 0
    /\ isPlaying' = FALSE
    /\ playbackSpeed' = 1000
    /\ playInterval' = FALSE
    /\ handlerFrameIndex' = 0
    /\ playTimers' = EffectTimers(playTimers, playInterval, FALSE)
    /\ playStart' = None
    /\ playTicks' = 0

\* Gallery: View button, Index.handleViewSession; the gallery unmounts and the
\* viewer mounts
HandleViewSession(i) ==
    /\ currentView = "gallery"
    /\ i \in 1..Len(galleryValue)
    /\ selectedSessionId' = Some(galleryValue[i].id)
    /\ currentView' = "viewer"
    /\ galleryValue' = <<>>
    /\ ViewerMount
    /\ UNCHANGED <<now, pendingSessionId, isOnline, storedValue, persisted,
                   uploadTimers, expected, batch, batchClean>>

\* WalkthroughViewer onClose: setCurrentView('gallery'); the viewer unmounts
\* and the gallery mounts
CloseViewer ==
    /\ currentView = "viewer"
    /\ currentView' = "gallery"
    /\ galleryValue' = ReadStored(persisted)
    /\ ViewerMount
    /\ UNCHANGED <<now, pendingSessionId, selectedSessionId, isOnline,
                   storedValue, persisted, uploadTimers, expected, batch,
                   batchClean>>

\* Gallery: trash button, deleteSession(session.id) on the gallery's instance
GalleryDelete(i) ==
    /\ currentView = "gallery"
    /\ i \in 1..Len(galleryValue)
    /\ GallerySetValue(DeleteSessionFrom(galleryValue, galleryValue[i].id))
    /\ batchClean' = FALSE
    /\ UNCHANGED <<now, viewerVars, currentView, pendingSessionId, selectedSessionId,
                   isOnline, storedValue, uploadTimers, expected, batch>>

\* Index.handleUploadSession(sessionId), up to the setTimeout: the timer's
\* callback keeps the updateSession of this render, whose setValue reads the
\* storedValue of this render (snap).
ScheduleUpload(timers, sessionId) ==
    IF GetSession(storedValue, sessionId) = None THEN timers
    ELSE Append(timers, [id |-> sessionId, snap |-> storedValue])

RECURSIVE ScheduleAll(_, _)
\* unuploadedSessions.forEach(session => handleUploadSession(session.id))
ScheduleAll(timers, list) ==
    IF list = <<>> THEN timers
    ELSE ScheduleAll(ScheduleUpload(timers, Head(list).id), Tail(list))

\* Gallery: Upload button of a card, onUploadSession(session.id)
GalleryUpload(i) ==
    /\ currentView = "gallery"
    /\ i \in 1..Len(galleryValue)
    /\ ~galleryValue[i].isUploaded
    /\ isOnline
    /\ Len(uploadTimers) < MaxUploads
    /\ uploadTimers' = ScheduleUpload(uploadTimers, galleryValue[i].id)
    /\ batchClean' = FALSE
    /\ UNCHANGED <<now, viewerVars, currentView, pendingSessionId, selectedSessionId,
                   isOnline, storedValue, galleryValue, persisted, expected,
                   batch>>

\* Home: "Upload All" button
UploadAll ==
    /\ currentView = "home"
    /\ Unuploaded(storedValue) # <<>>
    /\ isOnline
    /\ Len(uploadTimers) + Len(Unuploaded(storedValue)) <= MaxUploads
    /\ uploadTimers' = ScheduleAll(uploadTimers, Unuploaded(storedValue))
    /\ batch' = { Unuploaded(storedValue)[i].id : i \in 1..Len(Unuploaded(storedValue)) }
    /\ batchClean' = (uploadTimers = <<>>)
    /\ UNCHANGED <<now, viewerVars, currentView, pendingSessionId, selectedSessionId,
                   isOnline, storedValue, galleryValue, persisted, expected>>

\* The setTimeout callback of handleUploadSession fires (equal delays: in the
\* order scheduled): updateSession(sessionId, { isUploaded: true })
UploadTimeout ==
    /\ uploadTimers # <<>>
    /\ LET timer == Head(uploadTimers)
           updates == [isUploaded |-> TRUE]
       IN  /\ IndexSetValue(UpdateSessionIn(timer.snap, timer.id, updates, now))
           /\ expected' = UpdateSessionIn(expected, timer.id, updates, now)
    /\ uploadTimers' = Tail(uploadTimers)
    /\ UNCHANGED <<now, viewerVars, currentView, pendingSessionId, selectedSessionId,
                   isOnline, galleryValue, batch, batchClean>>

----------------------------------------------------------------------------
(* useCamera: the capture session *)

\* A session whose step counter starts at 1
StepFromOne(t) ==
    [id |-> t, frames |-> <<>>, startTime |-> t, isActive |-> TRUE,
     currentStep |-> 1, totalSteps |-> TotalSteps]

\* startCaptureSession: the session object, id `session_${Date.now()}`
NewSession(t) ==
    [id |-> t, frames |-> <<>>, startTime |-> t, isActive |-> TRUE,
     currentStep |-> 0, totalSteps |-> TotalSteps]

\* A frame whose id is made of the timestamp alone
TimestampOnlyFrame(closure, t) ==
    [id |-> <<t, 0>>, timestamp |-> t]

\* captureFrame: the frame, id `frame_${Date.now()}_${frames.length}`
NewFrame(closure, t) ==
    [id |-> <<t, Len(closure.frames)>>, timestamp |-> t]

\* An updatedSession that appends the frame and leaves the step counter
ForgetsStep(closure, frame) ==
    [closure EXCEPT !.frames = Append(@, frame)]

\* captureFrame: updatedSession, built from the closure's currentSession
UpdatedSession(closure, frame) ==
    [closure EXCEPT !.frames = Append(@, frame), !.currentStep = @ + 1]

\* stopCaptureSession as in part_004:74-80: the state is flipped through an
\* updater and the closure's currentSession is returned as it is
StopReturnsClosure(closure) == closure

\* stopCaptureSession: completedSession, the value set and returned (the
\* closure's currentSession itself when there is none)
CompletedSession(closure) ==
    IF closure # None THEN Some([closure[1] EXCEPT !.isActive = FALSE]) ELSE closure

HookInit ==
    /\ currentSession = None
    /\ isCapturing = FALSE
    /\ inflight = <<>>
    /\ returned = None
    /\ completed = <<>>
    /\ starts = 0
    /\ lastResult = "none"
    /\ failedBefore = FALSE

RemoveAt(seq, i) == SubSeq(seq, 1, i - 1) \o SubSeq(seq, i + 1, Len(seq))

\* startCaptureSession()
StartCaptureSession ==
    /\ currentSession' = Some(NewSession(now))
    /\ isCapturing' = TRUE
    /\ completed' = <<>>
    /\ starts' = starts + 1
    /\ lastResult' = "none"
    /\ failedBefore' = FALSE
    /\ returned' = None
    /\ UNCHANGED inflight

\* captureFrame() up to its first await: the function of the current render
\* is called, it keeps that render's currentSession; with no session it
\* returns null at once
CaptureFrameBegin(maxFrames) ==
    /\ currentSession # None
    /\ Len(inflight) < MaxInflight
    /\ Len(currentSession[1].frames) < maxFrames
    /\ inflight' = Append(inflight, currentSession[1])
    /\ UNCHANGED <<currentSession, isCapturing, returned, completed, starts,
                   lastResult, failedBefore>>

\* captureFrame() after the camera delivered the image: setCurrentSession(updatedSession)
CaptureFrameResolve(i) ==
    /\ i \in 1..Len(inflight)
    /\ LET frame == NewFrame(inflight[i], now)
       IN  /\ currentSession' = Some(UpdatedSession(inflight[i], frame))
           /\ completed' = Append(completed, frame)
    /\ inflight' = RemoveAt(inflight, i)
    /\ lastResult' = "frame"
    /\ UNCHANGED <<isCapturing, returned, starts, failedBefore>>

\* captureFrame() when Haptics or Camera.getPhoto throws: toast, return null
CaptureFrameReject(i) ==
    /\ i \in 1..Len(inflight)
    /\ inflight' = RemoveAt(inflight, i)
    /\ lastResult' = "null"
    /\ failedBefore' = TRUE
    /\ UNCHANGED <<currentSession, isCapturing, returned, completed, starts>>

\* stopCaptureSession()
StopCaptureSession ==
    /\ currentSession' = CompletedSession(currentSession)
    /\ returned' = CompletedSession(currentSession)
    /\ isCapturing' = FALSE
    /\ UNCHANGED <<inflight, completed, starts, lastResult, failedBefore>>

----------------------------------------------------------------------------
(* CameraInterface *)

CameraInit ==
    /\ isReady = FALSE
    /\ autoCapturing = FALSE
    /\ captureInterval = FALSE
    /\ tickSession = None
    /\ reported = None
    /\ ticks = 0
    /\ stopped = FALSE

\* A stop that leaves the interval running
KeepInterval(running) == running

\* clearInterval(captureIntervalRef.current): the interval no longer runs
ClearInterval(running) == FALSE

\* A stop that reports every session it stopped, as handleAutoCaptureFrame does
AnySession(completedSession) == completedSession # None

\* handleStop: completedSession && completedSession.frames.length > 0
HasFrames(completedSession) ==
    completedSession # None /\ Len(completedSession[1].frames) > 0

\* The interval callback's test before it captures
TickCaptures(closure) ==
    closure # None /\ closure[1].currentStep < closure[1].totalSteps

----------------------------------------------------------------------------
(* The Index component with its store, gallery and simulated uploads; the   *)
(* camera screen is its environment and reports any session id.            *)

Init ==
    /\ now = 0
    /\ currentView = "home"
    /\ StoreInit
    /\ HookInit
    /\ CameraInit
    /\ ViewerInit
    /\ SideInit

StoreNext ==
    \/ Advance
    \/ NetworkChange
    \/ OpenCamera
    \/ CloseCamera
    \/ \E sessionId \in SessionIds : HandleCameraSessionComplete(sessionId)
    \/ \E rawTitle \in TitleInputs : HandleDescriptionSave(rawTitle)
    \/ HandleDescriptionCancel
    \/ OpenGallery
    \/ CloseGallery
    \/ \E i \in 1..MaxSessions : HandleViewSession(i)
    \/ CloseViewer
    \/ \E i \in 1..MaxSessions : GalleryDelete(i)
    \/ \E i \in 1..MaxSessions : GalleryUpload(i)
    \/ UploadAll
    \/ UploadTimeout

Next == StoreNext /\ UNCHANGED <<hookVars, cameraVars, sideVars>>

Spec == Init /\ [][Next]_vars

----------------------------------------------------------------------------
(* Claims about the store *)

\* C1: after any sequence of addSession / updateSession / deleteSession calls
\* on Index's store instance, calls issued through the same render's setValue
\* included, the visible list is the result of applying all the calls in
\* order: no call's effect is lost.
C1_NoLostUpdate == storedValue = expected

\* A list keeps isUploaded: entry by entry, when no entry was added or removed
StaysUploaded(before, after) ==
    Len(after) = Len(before) =>
        \A i \in 1..Len(before) :
            (before[i].isUploaded /\ after[i].id = before[i].id) => after[i].isUploaded

\* C6: in the persisted list and in every visible list, a session's isUploaded
\* never goes from true back to false.
C6_UploadedMonotonic ==
    [][ /\ StaysUploaded(persisted, persisted')
        /\ StaysUploaded(storedValue, storedValue')
        /\ (currentView = "gallery" /\ currentView' = "gallery")
               => StaysUploaded(galleryValue, galleryValue') ]_vars

AllUploaded(sessions, ids) ==
    \A i \in 1..Len(sessions) : sessions[i].id \in ids => sessions[i].isUploaded

\* C7: Upload All on N >= 2 sessions that are not uploaded, with no other
\* store operation: once every simulated delay has elapsed, each of them has
\* isUploaded = true in the visible and in the persisted list.
C7_UploadAllCompletes ==
    (batchClean /\ Cardinality(batch) >= 2 /\ uploadTimers = <<>>)
        => (AllUploaded(storedValue, batch) /\ AllUploaded(persisted, batch))

\* The updateSession call of a simulated upload completes in this step
UpdateStep == uploadTimers # <<>> /\ uploadTimers' = Tail(uploadTimers)

\* C17: an updateSession whose id matches no session of the stored list
\* leaves the stored list as it is.
C17_UpdateUnknownId ==
    [][ (UpdateStep /\ GetSession(persisted, Head(uploadTimers).id) = None)
            => persisted' = persisted ]_vars

\* C18: deleteSession(id) takes the entries with that id out of the stored
\* list and of the list shown, and leaves every other entry present,
\* unmodified and in the same order.
C18_DeleteExactlyOne ==
    [][ (currentView = "gallery" /\ currentView' = "gallery"
                                /\ galleryValue' # galleryValue)
            => \E i \in 1..Len(galleryValue) :
                   /\ galleryValue' = DeleteSessionFrom(galleryValue, galleryValue[i].id)
                   /\ persisted' = DeleteSessionFrom(persisted, galleryValue[i].id) ]_vars

\* C19: an updateSession on a session of the stored list leaves that session
\* with updatedAt >= createdAt and >= its earlier updatedAt, and leaves every
\* other session of the list unchanged.
C19_UpdateTouchesOne ==
    [][ (UpdateStep /\ GetSession(persisted, Head(uploadTimers).id) # None)
            => /\ Len(persisted') = Len(persisted)
               /\ \A i \in 1..Len(persisted) :
                      IF persisted[i].id = Head(uploadTimers).id
                      THEN /\ persisted'[i].id = persisted[i].id
                           /\ persisted'[i].updatedAt >= persisted'[i].createdAt
                           /\ persisted'[i].updatedAt >= persisted[i].updatedAt
                      ELSE persisted'[i] = persisted[i] ]_vars

\* The addSession call of a save happens in this step
AddStep == pendingSessionId # None /\ pendingSessionId' = None
                                   /\ currentView' = "gallery"

\* C20: addSession(s) makes the stored list s followed by the sessions that
\* were stored before, in their order; the hook's list is that same list.
C20_AddPrepends ==
    [][ AddStep =>
          /\ persisted' # <<>>
          /\ persisted'[1].id = pendingSessionId[1]
          /\ Tail(persisted') = persisted
          /\ storedValue' = persisted' ]_vars

\* The ids of a list of sessions are pairwise distinct
DistinctIds(sessions) ==
    \A i, j \in 1..Len(sessions) : i # j => sessions[i].id # sessions[j].id

\* C21: the ids of the sessions of the store are pairwise distinct, in the
\* stored list and in the list Index shows, whatever the sequence of saves,
\* uploads and deletes, two saves of one pending session id included.
C21_StoreIdsDistinct == DistinctIds(persisted) /\ DistinctIds(storedValue)

----------------------------------------------------------------------------
(* The save flow alone: the camera screen reports a session id, the user    *)
(* types a title and saves or cancels, looks at the gallery and returns.    *)
(* The localStorage write of a save may throw (quota, serialization).       *)

DescribeAdvance == Advance /\ UNCHANGED <<hookVars, cameraVars, sideVars>>

DescribeOpenCamera == OpenCamera /\ UNCHANGED <<hookVars, cameraVars, sideVars>>

DescribeCloseCamera == CloseCamera /\ UNCHANGED <<hookVars, cameraVars, sideVars>>

DescribeComplete ==
    /\ \E sessionId \in SessionIds : HandleCameraSessionComplete(sessionId)
    /\ UNCHANGED <<hookVars, cameraVars, sideVars>>

DescribeSave ==
    /\ \E rawTitle \in TitleInputs, ok \in BOOLEAN :
           /\ DescriptionSave(rawTitle, ok)
           /\ writeFailed' = ~ok
    /\ UNCHANGED <<hookVars, cameraVars, deletedIds, netVars>>

DescribeCancel == HandleDescriptionCancel /\ UNCHANGED <<hookVars, cameraVars, sideVars>>

DescribeOpenGallery == OpenGallery /\ UNCHANGED <<hookVars, cameraVars, sideVars>>

DescribeCloseGallery == CloseGallery /\ UNCHANGED <<hookVars, cameraVars, sideVars>>

NextDescribe ==
    \/ DescribeAdvance
    \/ DescribeOpenCamera
    \/ DescribeCloseCamera
    \/ DescribeComplete
    \/ DescribeSave
    \/ DescribeCancel
    \/ DescribeOpenGallery
    \/ DescribeCloseGallery

SpecDescribe == Init /\ [][NextDescribe]_vars

\* The addSession call of a save is made in this step
SaveStep == currentView = "description" /\ expected' # expected

\* C22: when the write inside setValue throws, the caller goes on as if it
\* had not (the save handler reaches the gallery), the hook's list is the new
\* list and localStorage holds what it held before the call; when the write
\* succeeds, localStorage holds the hook's list.
C22_FailedWriteIsCaught ==
    [][ SaveStep =>
          /\ currentView' = "gallery"
          /\ pendingSessionId' = None
          /\ storedValue' # <<>>
          /\ storedValue'[1].id = pendingSessionId[1]
          /\ Tail(storedValue') = storedValue
          /\ IF writeFailed' THEN persisted' = persisted
                              ELSE persisted' = storedValue' ]_vars

C22_Witness ==
    /\ writeFailed
    /\ currentView = "gallery"
    /\ Len(storedValue) = 2
    /\ Len(persisted) = 1
    /\ persisted[1] = storedValue[2]

\* A title with a character that is not white space
HasText(title) == \E k \in 1..Len(title) : ~IsSpace(title[k])

\* C23: every session of the store, in localStorage and in the lists shown,
\* has a title that is not empty once trimmed: a save with an empty or
\* all-blank title adds no session.
C23_TitlesNotBlank ==
    /\ \A i \in 1..Len(persisted) : HasText(persisted[i].title)
    /\ \A i \in 1..Len(storedValue) : HasText(storedValue[i].title)
    /\ \A i \in 1..Len(galleryValue) : HasText(galleryValue[i].title)

C23_Witness ==
    /\ currentView = "gallery"
    /\ ~writeFailed
    /\ Len(persisted) = 2
    /\ persisted[1].title = <<"a">>
    /\ persisted[1].id # persisted[2].id

----------------------------------------------------------------------------
(* useCamera under any caller: calls are made with the functions of the     *)
(* current render, captures may overlap and settle in any order.  A stopped *)
(* session with frames is reported to Index as CameraInterface.handleStop   *)
(* does, and saved from the description screen.                            *)

MountCamera ==
    /\ currentSession' = None
    /\ isCapturing' = FALSE
    /\ inflight' = <<>>
    /\ returned' = None
    /\ completed' = <<>>
    /\ starts' = 0
    /\ lastResult' = "none"
    /\ failedBefore' = FALSE
    /\ isReady' = FALSE
    /\ autoCapturing' = FALSE
    /\ captureInterval' = FALSE
    /\ tickSession' = None
    /\ ticks' = 0
    /\ stopped' = FALSE

HookStart ==
    /\ currentView = "camera"
    /\ ~isCapturing
    /\ starts < MaxStarts
    /\ StartCaptureSession
    /\ UNCHANGED <<now, sideVars, viewerVars, storeVars, cameraVars>>

HookCapture ==
    /\ currentView = "camera"
    /\ CaptureFrameBegin(MaxRaceFrames)
    /\ UNCHANGED <<now, sideVars, viewerVars, storeVars, cameraVars>>

HookResolve ==
    /\ currentView = "camera"
    /\ \E i \in 1..MaxInflight : CaptureFrameResolve(i)
    /\ UNCHANGED <<now, sideVars, viewerVars, storeVars, cameraVars>>

HookReject ==
    /\ currentView = "camera"
    /\ \E i \in 1..MaxInflight : CaptureFrameReject(i)
    /\ UNCHANGED <<now, sideVars, viewerVars, storeVars, cameraVars>>

HookStop ==
    /\ currentView = "camera"
    /\ isCapturing
    /\ StopCaptureSession
    /\ UNCHANGED <<now, sideVars, viewerVars, storeVars, cameraVars>>

\* CameraInterface.handleStop after stopCaptureSession returned a session with
\* frames: onSessionComplete(completedSession.id), that is
\* Index.handleCameraSessionComplete; the camera screen unmounts
ReportComplete ==
    /\ currentView = "camera"
    /\ returned # None
    /\ Len(returned[1].frames) > 0
    /\ pendingSessionId' = Some(returned[1].id)
    /\ currentView' = "description"
    /\ reported' = returned
    /\ inflight' = <<>>
    /\ UNCHANGED <<now, sideVars, viewerVars, selectedSessionId, isOnline, storedValue, galleryValue,
                   persisted, uploadTimers, expected, batch, batchClean,
                   currentSession, isCapturing, returned, completed, starts,
                   lastResult, failedBefore,
                   isReady, autoCapturing, captureInterval, tickSession, ticks,
                   stopped>>

HookSave ==
    /\ \E rawTitle \in TitleInputs : HandleDescriptionSave(rawTitle)
    /\ UNCHANGED <<hookVars, cameraVars, sideVars>>

HookAdvance == Advance /\ UNCHANGED <<hookVars, cameraVars, sideVars>>

InitHook ==
    /\ now = 0
    /\ currentView = "camera"
    /\ StoreInit
    /\ HookInit
    /\ CameraInit
    /\ ViewerInit
    /\ SideInit

NextHook ==
    \/ HookAdvance
    \/ HookStart
    \/ HookCapture
    \/ HookResolve
    \/ HookReject
    \/ HookStop
    \/ ReportComplete
    \/ HookSave

SpecHook == InitHook /\ [][NextHook]_vars

\* useCamera alone within one millisecond: the same calls while Date.now()
\* keeps its value, with nothing reported to Index
NextBurst ==
    \/ HookStart
    \/ HookCapture
    \/ HookResolve
    \/ HookReject
    \/ HookStop

SpecBurst == InitHook /\ [][NextBurst]_vars

----------------------------------------------------------------------------
(* useCamera under a caller that awaits each captureFrame before its next    *)
(* call: one call at a time, each made with the functions of the render     *)
(* that followed the previous call.                                         *)

SeqStart ==
    /\ inflight = <<>>
    /\ HookStart

SeqCapture ==
    /\ inflight = <<>>
    /\ CaptureFrameBegin(MaxSeqFrames)
    /\ UNCHANGED <<now, sideVars, viewerVars, storeVars, cameraVars>>

SeqResolve == HookResolve

SeqReject == HookReject

SeqStop ==
    /\ inflight = <<>>
    /\ HookStop

NextSeq ==
    \/ HookAdvance
    \/ SeqStart
    \/ SeqCapture
    \/ SeqResolve
    \/ SeqReject
    \/ SeqStop

SpecSeq == InitHook /\ [][NextSeq]_vars

----------------------------------------------------------------------------
(* The CameraInterface screen as the user drives it: opened from home, Start *)
(* Capture arms the interval, Stop or the X button leaves the screen.  No   *)
(* captureFrame call is ever awaiting the camera on this screen (the        *)
(* interval callback's closure holds the currentSession of the render before *)
(* Start Capture), so the settling of a capture is not a step here.         *)

\* Home: "Start Capture"; CameraInterface mounts with fresh state
CamOpen ==
    /\ currentView = "home"
    /\ currentView' = "camera"
    /\ MountCamera
    /\ UNCHANGED <<now, sideVars, viewerVars, pendingSessionId, selectedSessionId, isOnline,
                   storedValue, galleryValue, persisted, uploadTimers,
                   expected, batch, batchClean, reported>>

\* startCamera(): getUserMedia resolved, setIsReady(true)
CamReady ==
    /\ currentView = "camera"
    /\ ~isReady
    /\ isReady' = TRUE
    /\ UNCHANGED <<now, sideVars, viewerVars, storeVars, hookVars, autoCapturing, captureInterval,
                   tickSession, reported, ticks, stopped>>

\* CameraInterface.handleStartCapture: the interval callback is created in
\* this render and keeps this render's currentSession
HandleStartCapture ==
    /\ currentView = "camera"
    /\ ~isCapturing
    /\ isReady
    /\ StartCaptureSession
    /\ autoCapturing' = TRUE
    /\ captureInterval' = TRUE
    /\ tickSession' = currentSession
    /\ ticks' = 0
    /\ stopped' = FALSE
    /\ UNCHANGED <<now, sideVars, viewerVars, storeVars, isReady, reported>>

\* The setInterval callback of handleStartCapture runs (every 2000 ms)
IntervalTick ==
    /\ captureInterval
    /\ ticks < MaxTicks
    /\ ticks' = ticks + 1
    /\ inflight' = IF TickCaptures(tickSession)
                      THEN Append(inflight, tickSession[1])
                      ELSE inflight
    /\ UNCHANGED <<now, sideVars, viewerVars, storeVars, currentSession, isCapturing, returned,
                   completed, starts, lastResult, failedBefore, isReady,
                   autoCapturing, captureInterval,
                   tickSession, reported, stopped>>

\* CameraInterface.handleStop; either branch leaves the camera screen, whose
\* unmount cleanup clears the interval again
HandleStop ==
    /\ currentView = "camera"
    /\ isCapturing
    /\ autoCapturing' = FALSE
    /\ captureInterval' = ClearInterval(ClearInterval(captureInterval))
    /\ StopCaptureSession
    /\ stopped' = TRUE
    /\ LET completedSession == CompletedSession(currentSession)
       IN  IF HasFrames(completedSession)
           THEN /\ pendingSessionId' = Some(completedSession[1].id)
                /\ currentView' = "description"
                /\ reported' = completedSession
           ELSE /\ currentView' = "home"
                /\ UNCHANGED <<pendingSessionId, reported>>
    /\ UNCHANGED <<now, sideVars, viewerVars, selectedSessionId, isOnline, storedValue, galleryValue,
                   persisted, uploadTimers, expected, batch, batchClean,
                   isReady, tickSession, ticks>>

\* The X button: onClose; the unmount cleanup clears the interval
CamClose ==
    /\ currentView = "camera"
    /\ currentView' = "home"
    /\ captureInterval' = ClearInterval(captureInterval)
    /\ stopped' = (stopped \/ currentSession # None)
    /\ UNCHANGED <<now, sideVars, viewerVars, pendingSessionId, selectedSessionId, isOnline,
                   storedValue, galleryValue, persisted, uploadTimers,
                   expected, batch, batchClean, hookVars, isReady,
                   autoCapturing, tickSession, reported, ticks>>

CamAdvance == HookAdvance

CamNetworkChange == NetworkChange /\ UNCHANGED <<hookVars, cameraVars, sideVars>>

InitCamera ==
    /\ now = 0
    /\ currentView = "home"
    /\ StoreInit
    /\ HookInit
    /\ CameraInit
    /\ ViewerInit
    /\ SideInit

NextCamera ==
    \/ CamAdvance
    \/ CamNetworkChange
    \/ CamOpen
    \/ CamReady
    \/ HandleStartCapture
    \/ IntervalTick
    \/ HandleStop
    \/ CamClose

SpecCamera == InitCamera /\ [][NextCamera]_vars

----------------------------------------------------------------------------
(* Claims about the capture session hook *)

\* C4: within one capture session isActive never goes from false back to
\* true, also when a captureFrame call that began before stopCaptureSession
\* settles after it.
C4_ActiveOnlyFalls ==
    [][ (/\ currentSession # None
         /\ currentSession' # None
         /\ starts' = starts
         /\ ~currentSession[1].isActive) => ~currentSession'[1].isActive ]_vars

\* C5: the frames of every captureFrame call that resolved, overlapping calls
\* included, are in the session's frame list in the order of completion.
C5_FramesInCompletionOrder ==
    (currentSession # None /\ currentSession[1].isActive)
        => currentSession[1].frames = completed

\* C8: the WalkthroughSession saved for a completed capture session has that
\* session's id, its frames in capture order, and totalFrames = their number.
C8_SavedSessionHasFrames ==
    reported # None =>
        \A i \in 1..Len(storedValue) :
            storedValue[i].id = reported[1].id =>
                /\ storedValue[i].frames = reported[1].frames
                /\ storedValue[i].totalFrames = Len(reported[1].frames)

C12_StepWithinTotal ==
    currentSession # None =>
        currentSession[1].currentStep <= currentSession[1].totalSteps

\* C13: captureFrame called on a stopped session appends nothing: as long as
\* the stopped session is the current one its frames and step counter are
\* those stopCaptureSession returned.
C13_StoppedSessionKeepsFrames ==
    (returned # None /\ currentSession # None) =>
        /\ currentSession[1].frames = returned[1].frames
        /\ currentSession[1].currentStep = returned[1].currentStep

\* C14: a captureFrame call that fails returns null and leaves the current
\* session as it was; a call that succeeds, also right after a failure,
\* appends exactly the frame it returns and adds exactly 1 to currentStep.
C14_FailureThenRetry ==
    [][ Len(inflight') < Len(inflight) =>
          IF lastResult' = "null"
          THEN /\ currentSession' = currentSession
               /\ completed' = completed
          ELSE /\ currentSession # None
               /\ currentSession' # None
               /\ completed' # <<>>
               /\ currentSession'[1].frames =
                      Append(currentSession[1].frames, completed'[Len(completed')])
               /\ currentSession'[1].currentStep = currentSession[1].currentStep + 1
               /\ currentSession'[1].isActive = currentSession[1].isActive ]_vars

C14_Witness ==
    /\ failedBefore
    /\ lastResult = "frame"
    /\ currentSession # None
    /\ currentSession[1].isActive
    /\ Len(currentSession[1].frames) = 2
    /\ currentSession[1].currentStep = 2

\* C15: the ids of the frames of the current session are pairwise distinct,
\* also when frames were captured at the same Date.now().
C15_FrameIdsDistinct ==
    currentSession # None =>
        \A i, j \in 1..Len(currentSession[1].frames) :
            i # j => currentSession[1].frames[i].id # currentSession[1].frames[j].id

C15_Witness ==
    /\ currentSession # None
    /\ Len(currentSession[1].frames) >= 2
    /\ currentSession[1].frames[1].timestamp = currentSession[1].frames[2].timestamp

\* The step counter of a session is the number of its frames
StepIsFrameCount(session) ==
    session # None => session[1].currentStep = Len(session[1].frames)

----------------------------------------------------------------------------
(* Claims about the auto-capture ticker *)

\* C2: after Start Capture, every tick of the interval that finds
\* currentStep < totalSteps invokes captureFrame (so that an undisturbed
\* session reaches currentStep = totalSteps and is stopped automatically).
C2_TickCaptures ==
    [][ (/\ ticks' = ticks + 1
         /\ currentSession # None
         /\ currentSession[1].isActive
         /\ currentSession[1].currentStep < currentSession[1].totalSteps)
            => Len(inflight') = Len(inflight) + 1 ]_vars

\* C3: once the capture session is stopped (handleStop, completion) or the
\* camera screen is torn down, the interval no longer runs and no captureFrame
\* call of the ticker is left to append a frame.
C3_NoTickAfterStop ==
    stopped => (~captureInterval /\ inflight = <<>>)

C3_Witness ==
    /\ stopped
    /\ ticks > 0
    /\ currentView = "home"
    /\ currentSession # None
    /\ ~currentSession[1].isActive

----------------------------------------------------------------------------
(* WalkthroughViewer (part_002:14-160, 284-330): the viewer opened from the  *)
(* gallery on a stored session of any number of frames.  A playback tick    *)
(* runs the updater of setCurrentFrameIndex; when that called               *)
(* setIsPlaying(false) the playback effect's cleanup clears the interval    *)
(* before the next tick is due (the shortest period is 250 ms).  The click, *)
(* key and mouse handlers are those of the last committed render: a user    *)
(* event that arrives between a tick and the commit of its render runs a    *)
(* handler that captured the frame index from before the tick.  A user      *)
(* event is a discrete event, rendered before the next one is handled.      *)

MaxViewFrames == 4
MaxDrag == 2

PlaybackSpeeds == {2000, 1000, 500, 250}

Min(a, b) == IF a < b THEN a ELSE b
Max(a, b) == IF a > b THEN a ELSE b

\* A WalkthroughSession with n frames as localStorage may hold it
StoredSession(id, n) ==
    [MockSession(id, <<"a">>, 0) EXCEPT
        !.frames = [k \in 1..n |-> [id |-> <<0, k - 1>>, timestamp |-> 0]],
        !.totalFrames = n]

\* The playback effect: an interval runs while isPlaying and session are set
EffectInterval(playing, session) == playing /\ session # None

\* Playback that goes on from frame 0 after the last frame
KeepsPlaying(prev, session) == TRUE

\* The interval callback's updater: setIsPlaying(false) at the last frame
PlayingAfterTick(prev, session) == ~(prev >= Len(session.frames) - 1)

\* The interval callback's updater: the next frame index
NextFrameIndex(prev, session) ==
    IF prev >= Len(session.frames) - 1 THEN 0 ELSE prev + 1

\* progress = frames.length > 0 ? (currentFrameIndex / (frames.length - 1)) * 100
\* : 0, in whole percent; 0 / 0 and k / 0 are no percentage (NaN, Infinity)
Progress(index, session) ==
    IF Len(session.frames) > 0
    THEN IF Len(session.frames) - 1 = 0
         THEN None
         ELSE Some((index * 100) \div (Len(session.frames) - 1))
    ELSE Some(0)

\* Previous-frame button: disabled={currentFrameIndex === 0}
PrevDisabled(index, session) == index = 0

\* Next-frame button: disabled={currentFrameIndex === session.frames.length - 1}
NextDisabled(index, session) == index = Len(session.frames) - 1

\* useEffect [sessionId, getSession]: setSession(getSession(sessionId)) on the
\* viewer's own store instance
ViewerLoad ==
    /\ currentView = "viewer"
    /\ viewerSession = None
    /\ selectedSessionId # None
    /\ GetSession(ReadStored(persisted), selectedSessionId[1]) # None
    /\ viewerSession' = GetSession(ReadStored(persisted), selectedSessionId[1])
    /\ playInterval' = EffectInterval(isPlaying, viewerSession')
    /\ handlerFrameIndex' = currentFrameIndex
    /\ playTimers' = EffectTimers(playTimers, playInterval, playInterval')
    /\ UNCHANGED <<now, sideVars, storeVars, hookVars, cameraVars, currentFrameIndex,
                   isPlaying, playbackSpeed, playStart, playTicks>>

\* togglePlayback (Play/Pause button or the space key)
TogglePlayback ==
    /\ currentView = "viewer"
    /\ isPlaying' = ~isPlaying
    /\ playInterval' = EffectInterval(isPlaying', viewerSession)
    /\ playStart' = IF isPlaying' THEN Some(currentFrameIndex) ELSE None
    /\ playTicks' = 0
    /\ handlerFrameIndex' = currentFrameIndex
    /\ playTimers' = EffectTimers(playTimers, playInterval, playInterval')
    /\ UNCHANGED <<now, sideVars, storeVars, hookVars, cameraVars, viewerSession,
                   currentFrameIndex, playbackSpeed>>

\* The setInterval callback of the playback effect runs
PlaybackTick ==
    /\ currentView = "viewer"
    /\ playInterval
    /\ playTicks <= MaxViewFrames
    /\ currentFrameIndex' = NextFrameIndex(currentFrameIndex, viewerSession[1])
    /\ isPlaying' = PlayingAfterTick(currentFrameIndex, viewerSession[1])
    /\ playInterval' = EffectInterval(isPlaying', viewerSession)
    /\ playTicks' = IF playStart # None THEN playTicks + 1 ELSE 0
    /\ playTimers' = EffectTimers(playTimers, playInterval, playInterval')
    /\ UNCHANGED <<now, sideVars, storeVars, hookVars, cameraVars, viewerSession,
                   playbackSpeed, handlerFrameIndex, playStart>>

\* goToNextFrame (button or ArrowRight)
GoToNextFrame ==
    /\ currentView = "viewer"
    /\ viewerSession # None
    /\ handlerFrameIndex < Len(viewerSession[1].frames) - 1
    /\ currentFrameIndex' = currentFrameIndex + 1
    /\ handlerFrameIndex' = currentFrameIndex'
    /\ playStart' = None
    /\ playTicks' = 0
    /\ UNCHANGED <<now, sideVars, storeVars, hookVars, cameraVars, viewerSession,
                   isPlaying, playbackSpeed, playInterval, playTimers>>

\* goToPrevFrame (button or ArrowLeft)
GoToPrevFrame ==
    /\ currentView = "viewer"
    /\ viewerSession # None
    /\ handlerFrameIndex > 0
    /\ currentFrameIndex' = currentFrameIndex - 1
    /\ handlerFrameIndex' = currentFrameIndex'
    /\ playStart' = None
    /\ playTicks' = 0
    /\ UNCHANGED <<now, sideVars, storeVars, hookVars, cameraVars, viewerSession,
                   isPlaying, playbackSpeed, playInterval, playTimers>>

\* resetToBeginning (button, disabled at frame 0)
ResetToBeginning ==
    /\ currentView = "viewer"
    /\ viewerSession # None
    /\ handlerFrameIndex # 0
    /\ currentFrameIndex' = 0
    /\ handlerFrameIndex' = 0
    /\ isPlaying' = FALSE
    /\ playInterval' = EffectInterval(isPlaying', viewerSession)
    /\ playStart' = None
    /\ playTicks' = 0
    /\ playTimers' = EffectTimers(playTimers, playInterval, playInterval')
    /\ UNCHANGED <<now, sideVars, storeVars, hookVars, cameraVars, viewerSession,
                   playbackSpeed>>

\* handleMouseDown and a mousemove of frameOffset frames
DragFrames(frameOffset) ==
    /\ currentView = "viewer"
    /\ viewerSession # None
    /\ currentFrameIndex' =
           Max(0, Min(Len(viewerSession[1].frames) - 1,
                      handlerFrameIndex + frameOffset))
    /\ handlerFrameIndex' = currentFrameIndex'
    /\ playStart' = None
    /\ playTicks' = 0
    /\ UNCHANGED <<now, sideVars, storeVars, hookVars, cameraVars, viewerSession,
                   isPlaying, playbackSpeed, playInterval, playTimers>>

\* The speed select: setPlaybackSpeed; the playback effect re-arms its interval
SetPlaybackSpeed(speed) ==
    /\ currentView = "viewer"
    /\ viewerSession # None
    /\ speed # playbackSpeed
    /\ playbackSpeed' = speed
    /\ playInterval' = EffectInterval(isPlaying, viewerSession)
    /\ handlerFrameIndex' = currentFrameIndex
    /\ playTimers' = EffectTimers(playTimers, playInterval, playInterval')
    /\ UNCHANGED <<now, sideVars, storeVars, hookVars, cameraVars, viewerSession,
                   currentFrameIndex, isPlaying, playStart, playTicks>>

\* The render scheduled by a playback tick commits: the handlers of the new
\* render replace the old ones
ViewerCommit ==
    /\ currentView = "viewer"
    /\ handlerFrameIndex # currentFrameIndex
    /\ handlerFrameIndex' = currentFrameIndex
    /\ UNCHANGED <<now, sideVars, storeVars, hookVars, cameraVars, viewerSession,
                   currentFrameIndex, isPlaying, playbackSpeed, playInterval, playTimers,
                   playStart, playTicks>>

ViewerOpen ==
    /\ \E i \in 1..MaxSessions : HandleViewSession(i)
    /\ UNCHANGED <<hookVars, cameraVars, sideVars>>

ViewerClose == CloseViewer /\ UNCHANGED <<hookVars, cameraVars, sideVars>>

\* The gallery is open on a store that holds one session of 0..MaxViewFrames
\* frames
InitViewer ==
    /\ now = 0
    /\ currentView = "gallery"
    /\ pendingSessionId = None
    /\ selectedSessionId = None
    /\ isOnline = TRUE
    /\ \E n \in 0..MaxViewFrames :
           /\ persisted = <<StoredSession(1, n)>>
           /\ storedValue = ReadStored(persisted)
           /\ galleryValue = ReadStored(persisted)
           /\ expected = storedValue
    /\ uploadTimers = <<>>
    /\ batch = {}
    /\ batchClean = FALSE
    /\ HookInit
    /\ CameraInit
    /\ ViewerInit
    /\ SideInit

NextViewer ==
    \/ ViewerOpen
    \/ ViewerLoad
    \/ TogglePlayback
    \/ PlaybackTick
    \/ ViewerCommit
    \/ GoToNextFrame
    \/ GoToPrevFrame
    \/ ResetToBeginning
    \/ \E frameOffset \in (0 - MaxDrag)..MaxDrag : DragFrames(frameOffset)
    \/ \E speed \in PlaybackSpeeds : SetPlaybackSpeed(speed)
    \/ ViewerClose

SpecViewer == InitViewer /\ [][NextViewer]_vars

\* C10: playback started at frame i (0 <= i <= n - 1) of an n-frame session
\* (n >= 1) and left
\* alone shows frame i + k after k ticks while k < n - i; the tick at the last
\* frame, the (n - i)-th, sets the frame index to 0 and isPlaying to false,
\* and no interval is left running, so the state stays so.
C10_PlaybackStopsAtEnd ==
    (viewerSession # None /\ playStart # None
                          /\ Len(viewerSession[1].frames) >= 1
                          /\ playStart[1] \in 0..(Len(viewerSession[1].frames) - 1)) =>
        IF playTicks < Len(viewerSession[1].frames) - playStart[1]
        THEN /\ isPlaying
             /\ playInterval
             /\ currentFrameIndex = playStart[1] + playTicks
        ELSE /\ playTicks = Len(viewerSession[1].frames) - playStart[1]
             /\ currentFrameIndex = 0
             /\ ~isPlaying
             /\ ~playInterval

C10_Witness ==
    /\ viewerSession # None
    /\ playStart # None
    /\ playStart[1] >= 1
    /\ Len(viewerSession[1].frames) >= 3
    /\ playTicks = Len(viewerSession[1].frames) - playStart[1]
    /\ playTicks >= 2
    /\ currentFrameIndex = 0
    /\ ~isPlaying

\* C11: with a loaded session of n >= 1 frames the frame index is always one
\* of 0..n-1, whatever the order of next, prev, drag, reset, play/pause and
\* playback ticks, a next or prev from a handler one tick old included.
C11_FrameIndexInRange ==
    (viewerSession # None /\ Len(viewerSession[1].frames) >= 1) =>
        currentFrameIndex \in 0..(Len(viewerSession[1].frames) - 1)

\* C16: with a loaded session of zero frames the progress is 0, the frame
\* index stays 0, and the previous and next buttons are both disabled.
C16_EmptySessionInert ==
    (viewerSession # None /\ Len(viewerSession[1].frames) = 0) =>
        /\ Progress(currentFrameIndex, viewerSession[1]) = Some(0)
        /\ currentFrameIndex = 0
        /\ PrevDisabled(handlerFrameIndex, viewerSession[1])
        /\ NextDisabled(handlerFrameIndex, viewerSession[1])

\* C24: at most one playback interval is live at any time; one is live exactly
\* while the viewer is mounted with isPlaying set and a session loaded, so
\* every change of isPlaying, session or speed clears the old interval before
\* a new one is armed, and none is left after playback stops or the viewer
\* closes.
C24_OnePlaybackTicker ==
    /\ playTimers \in {0, 1}
    /\ playTimers = 1 <=>
           (currentView = "viewer" /\ isPlaying /\ viewerSession # None)
    /\ playInterval <=> playTimers = 1

C24_Witness ==
    /\ playTimers = 1
    /\ isPlaying
    /\ playbackSpeed = 250
    /\ currentFrameIndex >= 1
    /\ playTicks >= 1

\* C29: for a loaded session of any number of frames, one frame included,
\* the progress is a number from 0 to 100 at every frame index reached: the
\* division is never by zero.
C29_ProgressDefined ==
    viewerSession # None =>
        /\ Progress(currentFrameIndex, viewerSession[1]) # None
        /\ Progress(currentFrameIndex, viewerSession[1])[1] \in 0..100

----------------------------------------------------------------------------
(* The application through its views: the camera screen with its ticker,   *)
(* the description step, the gallery and the viewer.  On the camera screen *)
(* captureFrame is also called directly with the function of the current   *)
(* render, one call at a time, which is how a session gets frames: the      *)
(* ticker's own calls never begin (its callback holds the currentSession of *)
(* the render before Start Capture) and the manual capture button is shown  *)
(* only while autoCapturing is false.  The camera delivers every image    *)
(* asked for and localStorage takes every write.  Every saved session has  *)
(* the mock's empty frame list, so the viewer plays sessions of no frames.  *)

AppAdvance == DescribeAdvance

AppCapture ==
    /\ inflight = <<>>
    /\ HookCapture

AppResolve == HookResolve

AppSave == HookSave

AppCancel == DescribeCancel

AppOpenGallery == DescribeOpenGallery

AppCloseGallery == DescribeCloseGallery

NextApp ==
    \/ AppAdvance
    \/ CamOpen
    \/ CamReady
    \/ HandleStartCapture
    \/ IntervalTick
    \/ AppCapture
    \/ AppResolve
    \/ HandleStop
    \/ CamClose
    \/ AppSave
    \/ AppCancel
    \/ AppOpenGallery
    \/ AppCloseGallery
    \/ ViewerOpen
    \/ ViewerLoad
    \/ TogglePlayback
    \/ PlaybackTick
    \/ ViewerClose

SpecApp == Init /\ [][NextApp]_vars

\* C25: the auto-capture interval and a playback interval are never live at
\* the same time, whatever the sequence of view changes, starts, stops and
\* closes.
C25_TickersExclusive == ~(captureInterval /\ (playInterval \/ playTimers > 0))

C25_Witness ==
    /\ currentView = "viewer"
    /\ playInterval
    /\ playTimers = 1
    /\ stopped
    /\ ticks > 0
    /\ ~captureInterval

\* handleStop runs in this step
StopStep == currentView = "camera" /\ isCapturing /\ ~isCapturing'

----------------------------------------------------------------------------
(* The store through Index and the gallery, with a record of the ids that   *)
(* were deleted in the gallery and not added again since.                   *)

TrackOpenCamera == DescribeOpenCamera

TrackComplete == DescribeComplete

TrackSave ==
    /\ \E rawTitle \in TitleInputs : HandleDescriptionSave(rawTitle)
    /\ deletedIds' = deletedIds \ {pendingSessionId[1]}
    /\ UNCHANGED <<hookVars, cameraVars, writeFailed, netVars>>

TrackOpenGallery == DescribeOpenGallery

TrackCloseGallery == DescribeCloseGallery

TrackDelete ==
    /\ \E i \in 1..MaxSessions :
           /\ GalleryDelete(i)
           /\ deletedIds' = deletedIds \cup {galleryValue[i].id}
    /\ UNCHANGED <<hookVars, cameraVars, writeFailed, netVars>>

TrackUpload ==
    /\ \E i \in 1..MaxSessions : GalleryUpload(i)
    /\ UNCHANGED <<hookVars, cameraVars, sideVars>>

TrackUploadAll == UploadAll /\ UNCHANGED <<hookVars, cameraVars, sideVars>>

TrackUploadTimeout == UploadTimeout /\ UNCHANGED <<hookVars, cameraVars, sideVars>>

NextTrack ==
    \/ TrackOpenCamera
    \/ TrackComplete
    \/ TrackSave
    \/ TrackOpenGallery
    \/ TrackCloseGallery
    \/ TrackDelete
    \/ TrackUpload
    \/ TrackUploadAll
    \/ TrackUploadTimeout

SpecTrack == Init /\ [][NextTrack]_vars

\* C27: a session deleted in the gallery stays out of the stored list until
\* a session with its id is added again: no save or upload of another
\* session, no Upload All and no upload that was pending at the delete
\* brings it back.
C27_DeletedStaysDeleted ==
    \A id \in deletedIds : GetSession(persisted, id) = None

----------------------------------------------------------------------------
(* useNetwork (hooks/useNetwork.ts:4-56) in a component that mounts and     *)
(* unmounts, such as CameraInterface.  Its effect starts Network.getStatus() *)
(* and Network.addListener(), both asynchronous, and registers the window   *)
(* online / offline listeners; its cleanup removes the plugin listener only *)
(* through the handle the effect's variable holds by then.  The plugin      *)
(* holds the callback from the addListener call on; the promise delivers    *)
(* the handle.  A state setter called for an unmounted component changes    *)
(* nothing.                                                                 *)

MaxMounts == 2

\* status objects of the Network plugin: { connected, connectionType }
NetworkStatuses ==
    { [connected |-> TRUE, connectionType |-> "wifi"],
      [connected |-> FALSE, connectionType |-> "none"] }

otherStoreVars == <<currentView, pendingSessionId, selectedSessionId, storedValue,
                    galleryValue, persisted, uploadTimers, expected, batch,
                    batchClean>>

\* The effect's cleanup: if (networkListener) networkListener.remove()
RemoveListener(count, handle) == IF handle THEN count - 1 ELSE count

\* setIsOnline(status.connected); setConnectionType(status.connectionType)
\* called by the instance of mount k
SetNetworkState(k, status) ==
    IF netMounted /\ k = mounts
    THEN /\ isOnline' = status.connected
         /\ connectionType' = status.connectionType
    ELSE UNCHANGED <<isOnline, connectionType>>

\* The component mounts: useState initial values, then the effect body
NetMount ==
    /\ ~netMounted
    /\ mounts < MaxMounts
    /\ netMounted' = TRUE
    /\ mounts' = mounts + 1
    /\ isOnline' = TRUE
    /\ connectionType' = "unknown"
    /\ statusPending' = statusPending \cup {mounts + 1}
    /\ listenerPending' = listenerPending \cup {mounts + 1}
    /\ subscriptions' = subscriptions + 1
    /\ networkListener' = FALSE
    /\ browserListeners' = TRUE
    /\ UNCHANGED <<now, otherStoreVars, hookVars, cameraVars, viewerVars, auditVars>>

\* await Network.getStatus() of mount k resolves
GetStatusResolve(k, status) ==
    /\ k \in statusPending
    /\ statusPending' = statusPending \ {k}
    /\ SetNetworkState(k, status)
    /\ UNCHANGED <<now, otherStoreVars, hookVars, cameraVars, viewerVars, auditVars,
                   netMounted, listenerPending, networkListener, subscriptions,
                   browserListeners, mounts>>

\* await Network.getStatus() of mount k rejects: setIsOnline(navigator.onLine)
GetStatusReject(k, onLine) ==
    /\ k \in statusPending
    /\ statusPending' = statusPending \ {k}
    /\ isOnline' = IF netMounted /\ k = mounts THEN onLine ELSE isOnline
    /\ UNCHANGED <<now, otherStoreVars, hookVars, cameraVars, viewerVars, auditVars,
                   netMounted, connectionType, listenerPending, networkListener,
                   subscriptions, browserListeners, mounts>>

\* networkListener = await Network.addListener(...) of mount k resolves: the
\* variable of that effect run gets the handle
AddListenerResolve(k) ==
    /\ k \in listenerPending
    /\ listenerPending' = listenerPending \ {k}
    /\ networkListener' = IF netMounted /\ k = mounts THEN TRUE ELSE networkListener
    /\ UNCHANGED <<now, storeVars, hookVars, cameraVars, viewerVars, auditVars,
                   netMounted, connectionType, statusPending, subscriptions,
                   browserListeners, mounts>>

\* Network.addListener(...) of mount k rejects: nothing was registered
AddListenerReject(k) ==
    /\ k \in listenerPending
    /\ listenerPending' = listenerPending \ {k}
    /\ subscriptions' = subscriptions - 1
    /\ UNCHANGED <<now, storeVars, hookVars, cameraVars, viewerVars, auditVars,
                   netMounted, connectionType, statusPending, networkListener,
                   browserListeners, mounts>>

\* The plugin emits 'networkStatusChange' while the component is mounted: its
\* callback sets the state (a callback left behind by an unmounted component
\* changes nothing)
NetworkStatusChange(status) ==
    /\ subscriptions > 0
    /\ netMounted
    /\ SetNetworkState(mounts, status)
    /\ UNCHANGED <<now, otherStoreVars, hookVars, cameraVars, viewerVars, auditVars,
                   netMounted, statusPending, listenerPending, networkListener,
                   subscriptions, browserListeners, mounts>>

\* window 'online' / 'offline' event: handleOnline / handleOffline
BrowserEvent(onLine) ==
    /\ browserListeners
    /\ isOnline' = onLine
    /\ UNCHANGED <<now, otherStoreVars, hookVars, cameraVars, viewerVars, auditVars,
                   netVars>>

\* The component unmounts: the effect's cleanup
NetUnmount ==
    /\ netMounted
    /\ netMounted' = FALSE
    /\ subscriptions' = RemoveListener(subscriptions, networkListener)
    /\ networkListener' = FALSE
    /\ browserListeners' = FALSE
    /\ UNCHANGED <<now, storeVars, hookVars, cameraVars, viewerVars, auditVars,
                   connectionType, statusPending, listenerPending, mounts>>

NextNetwork ==
    \/ NetMount
    \/ \E k \in 1..MaxMounts, status \in NetworkStatuses : GetStatusResolve(k, status)
    \/ \E k \in 1..MaxMounts, onLine \in BOOLEAN : GetStatusReject(k, onLine)
    \/ \E k \in 1..MaxMounts : AddListenerResolve(k)
    \/ \E k \in 1..MaxMounts : AddListenerReject(k)
    \/ \E status \in NetworkStatuses : NetworkStatusChange(status)
    \/ \E onLine \in BOOLEAN : BrowserEvent(onLine)
    \/ NetUnmount

SpecNetwork == Init /\ [][NextNetwork]_vars

\* C30: once the component is unmounted and its asynchronous calls have
\* settled, whatever their order with the unmount, the plugin holds no
\* 'networkStatusChange' listener of it and the window listeners are gone;
\* and while it is unmounted isOnline and connectionType do not change.
C30_NoListenerAfterTeardown ==
    /\ []((~netMounted /\ listenerPending = {} /\ statusPending = {})
              => (subscriptions = 0 /\ ~browserListeners))
    /\ [][ (~netMounted /\ ~netMounted')
              => (isOnline' = isOnline /\ connectionType' = connectionType) ]_vars

====
